---- MODULE Spec2Model ----
(***************************************************************************)
(* A model of the physics modules of the Nexus / Motus99 demo:             *)
(*   - CutTheRopeGame  (src/src/modules/physics/CutTheRopeGame.ts)         *)
(*   - PhysicsModule   (src/src/modules/physics/PhysicsModule.ts)          *)
(*   - Vehicle         (src/src/modules/physics/Vehicle.ts)                *)
(*   - MotusEngine     (src/src/engine/MotusEngine.ts)                     *)
(*                                                                         *)
(* Lengths are integers in tenths of a scene unit (1.2 is 12, 0.8 is 8).   *)
(* A physics body carries the identifier of the mesh it was built for.     *)
(* A joint is the pair <<a, b>> of aggA.body.addConstraint(aggB.body, _).  *)
(* Disposing a mesh removes it from the scene, destroys its physics body   *)
(* and with it every joint the body takes part in (PhysicsModule.ts:128,   *)
(* CutTheRopeGame.ts:548).                                                 *)
(***************************************************************************)
EXTENDS Integers, Sequences, FiniteSets, TLC

VARIABLES
    gameLoaded,      \* CutTheRopeGame.load() has run
    sceneMeshes,     \* meshes of the game's scene that are not disposed
    physBodies,      \* physics bodies alive in the game's scene
    constraints,     \* joints alive in the game's scene
    ropes,           \* this.ropes
    airBlowers,      \* this.airBlowers
    bubbles,         \* this.bubbles
    isPopped,        \* bubble mesh metadata.isPopped, by bubble index
    popCount,        \* number of times popBubble ran, by bubble index
    stars,           \* this.stars: collected flag by star index
    starsCollected,  \* this.starsCollected
    gameWon,         \* this.gameWon
    world,           \* positions read by the latest before-render callback
    applied,         \* forces and damping the latest handler applied to the candy
    bodyMass,        \* mass each body of the game was created with, in tenths
    pmLoaded,        \* PhysicsModule.load() has run
    pmMeshes,        \* meshes of the playground's scene that are not disposed
    pmBodies,        \* physics bodies alive in the playground
    pmJoints,        \* joints alive in the playground
    pmPos,           \* position given to each pendulum mesh at creation
    pmMass,          \* mass each body of the playground was created with, in tenths
    pmImpulses,      \* impulses the latest pointer handler applied
    vehState,        \* Vehicle: "none", "constructed" or "built" (build() has run)
    vehMeshes,       \* meshes the vehicle created: the chassis and the wheels
    vehBodies,       \* physics bodies of the vehicle
    vehJoints,       \* joints of the vehicle: chassis to wheel
    inputMap,        \* this.inputMap: the keys it has an entry for, and the entry
    vehFrame,        \* what the latest before-render callback read and applied
    lastKeyEvent,    \* the type of the latest event the vehicle saw, by key in lower case
    engPc,           \* MotusEngine: where init() stands
    engines,         \* the engine objects created so far
    engine,          \* this.engine
    scene,           \* this.scene: the engine it is bound to, physics enabled or not
    engSetup,        \* what init() has set up after the physics
    engLog,          \* console messages of the engine, at their level
    matrixMode,      \* matrixMode of setupMatrixView
    engMeshes,       \* scene.meshes of the engine's scene
    renderOutline,   \* the meshes of the engine's scene whose renderOutline is true
    matrixTrail      \* matrixMode as it was before each of the last two toggles

gameVars == <<gameLoaded, sceneMeshes, physBodies, constraints, ropes, airBlowers,
              bubbles, isPopped, popCount, stars, starsCollected, gameWon, world, applied,
              bodyMass>>
pmVars == <<pmLoaded, pmMeshes, pmBodies, pmJoints, pmPos, pmMass, pmImpulses>>
vehVars == <<vehState, vehMeshes, vehBodies, vehJoints, inputMap, vehFrame,
             lastKeyEvent>>
engVars == <<engPc, engines, engine, scene, engSetup, engLog, matrixMode, engMeshes,
             renderOutline, matrixTrail>>
vars == <<gameLoaded, sceneMeshes, physBodies, constraints, ropes, airBlowers,
          bubbles, isPopped, popCount, stars, starsCollected, gameWon, world, applied,
          bodyMass, pmLoaded, pmMeshes, pmBodies, pmJoints, pmPos, pmMass, pmImpulses,
          vehState, vehMeshes, vehBodies, vehJoints, inputMap, vehFrame, lastKeyEvent,
          engPc, engines, engine, scene, engSetup, engLog, matrixMode, engMeshes,
          renderOutline, matrixTrail>>

(***************************************************************************)
(* Vectors and distances                                                   *)
(***************************************************************************)
Vec(x, y, z) == <<x, y, z>>

DistSq(p, q) ==
    (p[1] - q[1]) * (p[1] - q[1]) + (p[2] - q[2]) * (p[2] - q[2])
        + (p[3] - q[3]) * (p[3] - q[3])

\* The largest coordinate difference of the play area, in tenths.
MaxDist == 400

\* The largest k in lo..hi with k * k <= n
RECURSIVE Sqrt(_, _, _)
Sqrt(n, lo, hi) ==
    IF lo >= hi THEN lo
    ELSE LET mid == (lo + hi + 1) \div 2
         IN  IF mid * mid <= n THEN Sqrt(n, mid, hi) ELSE Sqrt(n, lo, mid - 1)

\* Vector3.Distance, to the tenth below.
Distance(p, q) == Sqrt(DistSq(p, q), 0, MaxDist)

(***************************************************************************)
(* Mesh identifiers of the game: <<kind, index, sub-index>>                *)
(***************************************************************************)
Candy == <<"candy", 0, 0>>
Goal == <<"goal", 0, 0>>
Anchor(r) == <<"ropeAnchor", r, 0>>
Segment(r, i) == <<"ropeSegment", r, i>>
BubbleMesh(b) == <<"bubble", b, 0>>
BlowerMesh(k) == <<"airBlower", k, 0>>
StarMesh(s) == <<"star", s, 0>>

\* metadata.isCuttable, set on rope segments only
IsCuttable(m) == m[1] = "ropeSegment"
\* metadata.type === 'bubble'
IsBubble(m) == m[1] = "bubble"

\* f with x mapped to v
With(f, x, v) == [y \in (DOMAIN f) \cup {x} |-> IF y = x THEN v ELSE f[y]]

\* mesh.dispose() in a scene given as <<meshes, bodies, joints>>
DisposeMesh(sc, m) ==
    <<sc[1] \ {m},
      sc[2] \ {m},
      {j \in sc[3] : j[1] # m /\ j[2] # m}>>

(***************************************************************************)
(* CutTheRopeGame: construction of the level                               *)
(* A level under construction is a record g of the scene and the lists.    *)
(***************************************************************************)
EmptyLevel ==
    [meshes |-> {}, bodies |-> {}, joints |-> {}, candyPos |-> Vec(0, 0, 0),
     candyAggregate |-> <<"null", 0, 0>>, mass |-> <<>>,
     ropes |-> <<>>, bubbles |-> <<>>, bubblePos |-> <<>>, airBlowers |-> <<>>,
     stars |-> <<>>, goalPos |-> Vec(0, 0, 0)]

createCandy(g, position) ==
    [g EXCEPT !.meshes = @ \cup {Candy},
              !.bodies = @ \cup {Candy},
              !.candyAggregate = Candy,
              !.mass = With(@, Candy, 50),
              !.candyPos = position]

\* aggA.body.addConstraint(aggB.body, joint)
createRopeJoint(joints, aggA, aggB) == joints \cup {<<aggA, aggB>>}

\* createRopeLoop that never advances previousAggregate: every segment is joined
\* to the anchor
RECURSIVE createRopeLoopFromAnchor(_, _, _, _, _)
createRopeLoopFromAnchor(ropeIndex, i, segmentCount, previousAggregate, acc) ==
    IF i < segmentCount
    THEN LET segment == Segment(ropeIndex, i)
         IN  createRopeLoopFromAnchor(ropeIndex, i + 1, segmentCount, previousAggregate,
                 <<Append(acc[1], segment),
                   acc[2] \cup {segment},
                   createRopeJoint(acc[3], previousAggregate, segment),
                   With(acc[4], segment, 5)>>)
    ELSE <<acc[1], acc[2], acc[3], acc[4], previousAggregate>>

\* The loop of createRope from iteration i on; acc is <<segments, bodies, joints,
\* mass>>, and the result adds the last previousAggregate.
RECURSIVE createRopeLoop(_, _, _, _, _)
createRopeLoop(ropeIndex, i, segmentCount, previousAggregate, acc) ==
    IF i < segmentCount
    THEN LET segment == Segment(ropeIndex, i)
         IN  createRopeLoop(ropeIndex, i + 1, segmentCount, segment,
                 <<Append(acc[1], segment),
                   acc[2] \cup {segment},
                   createRopeJoint(acc[3], previousAggregate, segment),
                   With(acc[4], segment, 5)>>)
    ELSE <<acc[1], acc[2], acc[3], acc[4], previousAggregate>>

createRope(g, targetMesh, segmentCount) ==
    LET ropeIndex == Len(g.ropes)
        anchor == Anchor(ropeIndex)
        done == createRopeLoop(ropeIndex, 0, segmentCount, anchor,
                               <<<<>>, g.bodies \cup {anchor}, g.joints,
                                 With(g.mass, anchor, 0)>>)
        rope == [segments |-> done[1], anchorMesh |-> anchor]
    IN  [g EXCEPT !.meshes = @ \cup {anchor} \cup {done[1][k] : k \in 1..Len(done[1])},
                  !.bodies = done[2],
                  !.joints = createRopeJoint(done[3], done[5], g.candyAggregate),
                  !.mass = done[4],
                  !.ropes = Append(@, rope)]

FloatForce == 25

createBubble(g, position) ==
    LET bubble == BubbleMesh(Len(g.bubbles))
    IN  [g EXCEPT !.meshes = @ \cup {bubble},
                  !.bodies = @ \cup {bubble},
                  !.mass = With(@, bubble, 1),
                  !.bubbles = Append(@, [mesh |-> bubble, floatForce |-> FloatForce]),
                  !.bubblePos = Append(@, position)]

\* Vector3.normalize(): the same direction, of length one
Normalize(v) == [of |-> v, unit |-> TRUE]

createAirBlower(g, position, direction, force, range) ==
    LET blower == BlowerMesh(Len(g.airBlowers))
    IN  [g EXCEPT !.meshes = @ \cup {blower},
                  !.airBlowers = Append(@, [mesh |-> blower, position |-> position,
                                            direction |-> Normalize(direction),
                                            force |-> force, range |-> range])]

createStar(g, position) ==
    LET star == StarMesh(Len(g.stars))
    IN  [g EXCEPT !.meshes = @ \cup {star},
                  !.stars = Append(@, [mesh |-> star, position |-> position,
                                       collected |-> FALSE])]

createGoal(g, position) ==
    [g EXCEPT !.meshes = @ \cup {Goal}, !.goalPos = position]

\* The level load() builds, in the order of its calls.
LoadedLevel ==
    LET g1 == createCandy(EmptyLevel, Vec(0, 80, 0))
        g2 == createRope(g1, Candy, 8)
        g3 == createRope(g2, Candy, 10)
        g4 == createRope(g3, Candy, 12)
        g5 == createBubble(g4, Vec(-30, 40, 0))
        g6 == createBubble(g5, Vec(30, 20, 0))
        g7 == createAirBlower(g6, Vec(-80, 0, 0), Vec(10, 5, 0), 15, 80)
        g8 == createAirBlower(g7, Vec(80, -20, 0), Vec(-10, 3, 0), 12, 60)
        g9 == createStar(g8, Vec(-20, 60, 0))
        g10 == createStar(g9, Vec(20, 30, 0))
        g11 == createStar(g10, Vec(0, -20, 0))
    IN  createGoal(g11, Vec(0, -80, 0))

\* No force, no damping: what a handler that does not touch the candy applies.
NoForces == [forces |-> <<>>, damp |-> <<>>]

load ==
    /\ ~gameLoaded
    /\ LET g == LoadedLevel
       IN  /\ sceneMeshes' = g.meshes
           /\ physBodies' = g.bodies
           /\ constraints' = g.joints
           /\ ropes' = g.ropes
           /\ airBlowers' = g.airBlowers
           /\ bubbles' = g.bubbles
           /\ isPopped' = [b \in 1..Len(g.bubbles) |-> FALSE]
           /\ popCount' = [b \in 1..Len(g.bubbles) |-> 0]
           /\ stars' = g.stars
           /\ bodyMass' = g.mass
           /\ world' = [candy |-> g.candyPos, bubble |-> g.bubblePos]
    /\ gameLoaded' = TRUE
    /\ applied' = NoForces
    /\ UNCHANGED <<starsCollected, gameWon>>
    /\ UNCHANGED <<pmVars, vehVars, engVars>>

(***************************************************************************)
(* CutTheRopeGame: the pointer handler                                     *)
(***************************************************************************)
\* cutRope that only takes the mesh out of the scene and leaves its body and joints
cutRopeMeshOnly(sc, segmentMesh) == <<sc[1] \ {segmentMesh}, sc[2], sc[3]>>

\* cutRope that also tears the joints of the bodies next to the segment
cutRopeAndNeighbours(sc, segmentMesh) ==
    LET next == {j[1] : j \in {e \in sc[3] : e[2] = segmentMesh}}
                    \cup {j[2] : j \in {e \in sc[3] : e[1] = segmentMesh}}
                    \cup {segmentMesh}
    IN  <<sc[1] \ {segmentMesh}, sc[2] \ {segmentMesh},
          {j \in sc[3] : j[1] \notin next /\ j[2] \notin next}>>

\* cutRope that disposes every segment of the clicked segment's rope
cutRopeWhole(sc, segmentMesh) ==
    LET gone == {b \in sc[1] : b[1] = segmentMesh[1] /\ b[2] = segmentMesh[2]}
    IN  <<sc[1] \ gone, sc[2] \ gone,
          {j \in sc[3] : j[1] \notin gone /\ j[2] \notin gone}>>

\* cutRope: the segment mesh is disposed
cutRope(sc, segmentMesh) == DisposeMesh(sc, segmentMesh)

\* popBubble with the dispose left out: the bubble is only marked popped
popBubbleMarkOnly(sc, bubbleMesh) == sc

\* popBubble: the part that acts on the scene; metadata.isPopped is set by the handler
popBubble(sc, bubbleMesh) == DisposeMesh(sc, bubbleMesh)

\* The observer of setupInteraction, for one pointer event. A bubble's index in
\* this.bubbles is its mesh index plus one.
onPointer(type, hit, pickedMesh) ==
    /\ gameLoaded
    /\ IF type = "POINTERDOWN" /\ hit
       THEN LET mesh == pickedMesh
                sc0 == <<sceneMeshes, physBodies, constraints>>
                sc1 == IF IsCuttable(mesh) THEN cutRope(sc0, mesh) ELSE sc0
                pop == IsBubble(mesh) /\ ~isPopped[mesh[2] + 1]
                sc2 == IF pop THEN popBubble(sc1, mesh) ELSE sc1
            IN  /\ sceneMeshes' = sc2[1]
                /\ physBodies' = sc2[2]
                /\ constraints' = sc2[3]
                /\ isPopped' = IF pop THEN [isPopped EXCEPT ![mesh[2] + 1] = TRUE]
                                      ELSE isPopped
                /\ popCount' = IF pop THEN [popCount EXCEPT ![mesh[2] + 1] = @ + 1]
                                      ELSE popCount
       ELSE UNCHANGED <<sceneMeshes, physBodies, constraints, isPopped, popCount>>
    /\ applied' = NoForces
    /\ UNCHANGED <<gameLoaded, ropes, airBlowers, bubbles, stars, starsCollected,
                   gameWon, world, bodyMass>>
    /\ UNCHANGED <<pmVars, vehVars, engVars>>

(***************************************************************************)
(* CutTheRopeGame: the before-render callback                              *)
(***************************************************************************)
GoalPos == LoadedLevel.goalPos

\* blowerForce with the falloff upside down: falloff = distance / range
blowerForceGrowing(blower, distance) ==
    [by |-> blower.mesh, direction |-> blower.direction,
     num |-> blower.force * distance, den |-> blower.range]

\* blower.direction.scale(blower.force * falloff), falloff = 1 - distance / range,
\* as the fraction num / den of a unit.
blowerForce(blower, distance) ==
    [by |-> blower.mesh, direction |-> blower.direction,
     num |-> blower.force * (blower.range - distance), den |-> blower.range]

\* distance < blower.range
inBlowerRange(blower, distance) == distance < blower.range

RECURSIVE applyAirBlowerForces(_, _, _)
applyAirBlowerForces(k, w, acc) ==
    IF k > Len(airBlowers) THEN acc
    ELSE LET blower == airBlowers[k]
             distance == Distance(w.candy, blower.position)
         IN  applyAirBlowerForces(k + 1, w,
                 IF inBlowerRange(blower, distance)
                 THEN Append(acc, blowerForce(blower, distance))
                 ELSE acc)

Up == [of |-> Vec(0, 1, 0), unit |-> TRUE]

\* vel.x *= 0.98; vel.z *= 0.98, in hundredths
Damping == 98

\* inBubble with the bubble's edge included: distance <= 1.2
inBubbleInclusive(distance) == distance <= 12

\* The candy is inside the bubble: distance < 1.2
inBubble(distance) == distance < 12

\* acc is <<forces, dampings>>
RECURSIVE applyBubbleForces(_, _, _)
applyBubbleForces(k, w, acc) ==
    IF k > Len(bubbles) THEN acc
    ELSE LET bubble == bubbles[k]
         IN  IF bubble.mesh \notin sceneMeshes
             THEN applyBubbleForces(k + 1, w, acc)
             ELSE LET distance == Distance(w.candy, w.bubble[k])
                  IN  applyBubbleForces(k + 1, w,
                          IF inBubble(distance)
                          THEN <<Append(acc[1], [by |-> bubble.mesh, direction |-> Up,
                                                 num |-> bubble.floatForce, den |-> 1]),
                                 Append(acc[2], [by |-> bubble.mesh, x |-> Damping,
                                                 z |-> Damping])>>
                          ELSE acc)

\* starSkipped without the collected flag: only a disposed star is skipped
starSkippedIfDisposed(star) == star.mesh \notin sceneMeshes

\* The star is skipped: star.collected || star.mesh.isDisposed()
starSkipped(star) == star.collected \/ star.mesh \notin sceneMeshes

\* collectStar, on <<stars, starsCollected>>
collectStar(acc, k) ==
    <<[acc[1] EXCEPT ![k].collected = TRUE], acc[2] + 1>>

RECURSIVE checkStarCollection(_, _, _)
checkStarCollection(k, w, acc) ==
    IF k > Len(acc[1]) THEN acc
    ELSE LET star == acc[1][k]
         IN  IF starSkipped(star)
             THEN checkStarCollection(k + 1, w, acc)
             ELSE checkStarCollection(k + 1, w,
                      IF Distance(w.candy, star.position) < 12
                      THEN collectStar(acc, k)
                      ELSE acc)

\* checkWinCondition with the goal's edge included: distance <= 2
checkWinConditionInclusive(w) == Distance(w.candy, GoalPos) <= 20

\* checkWinCondition: TRUE when winGame is called
checkWinCondition(w) == Distance(w.candy, GoalPos) < 20

\* One rendered frame, in which the candy and the bubbles are where w says.
renderFrame(w) ==
    /\ gameLoaded
    /\ IF gameWon
       THEN /\ applied' = NoForces
            /\ UNCHANGED <<world, stars, starsCollected, gameWon>>
       ELSE LET blown == applyAirBlowerForces(1, w, <<>>)
                floated == applyBubbleForces(1, w, <<blown, <<>>>>)
                collected == checkStarCollection(1, w, <<stars, starsCollected>>)
            IN  /\ world' = w
                /\ applied' = [forces |-> floated[1], damp |-> floated[2]]
                /\ stars' = collected[1]
                /\ starsCollected' = collected[2]
                /\ gameWon' = checkWinCondition(w)
    /\ UNCHANGED <<gameLoaded, sceneMeshes, physBodies, constraints, ropes,
                   airBlowers, bubbles, isPopped, popCount, bodyMass>>
    /\ UNCHANGED <<pmVars, vehVars, engVars>>

\* The end of a collected star's shrink animation: star.mesh.dispose()
starAnimationEnd(k) ==
    /\ gameLoaded
    /\ k \in 1..Len(stars)
    /\ stars[k].collected
    /\ stars[k].mesh \in sceneMeshes
    /\ sceneMeshes' = sceneMeshes \ {stars[k].mesh}
    /\ applied' = NoForces
    /\ UNCHANGED <<gameLoaded, physBodies, constraints, ropes, airBlowers, bubbles,
                   isPopped, popCount, stars, starsCollected, gameWon, world,
                   bodyMass>>
    /\ UNCHANGED <<pmVars, vehVars, engVars>>

VictoryPlane == <<"victoryPlane", 0, 0>>

\* The end of the candy's enter-goal animation: candy.dispose(); celebrateWin()
winAnimationEnd ==
    /\ gameLoaded
    /\ gameWon
    /\ Candy \in sceneMeshes
    /\ LET sc == DisposeMesh(<<sceneMeshes, physBodies, constraints>>, Candy)
       IN  /\ sceneMeshes' = sc[1] \cup {VictoryPlane}
           /\ physBodies' = sc[2]
           /\ constraints' = sc[3]
    /\ applied' = NoForces
    /\ UNCHANGED <<gameLoaded, ropes, airBlowers, bubbles, isPopped, popCount,
                   stars, starsCollected, gameWon, world, bodyMass>>
    /\ UNCHANGED <<pmVars, vehVars, engVars>>

(***************************************************************************)
(* PhysicsModule: the wrecking-ball playground                             *)
(* A mesh name is the sequence of its parts: "link_" + i is <<"link_", i>>.*)
(***************************************************************************)
PmAnchor == <<"anchor", 0, 0>>
Link(i) == <<"link_", i, 0>>
WreckingBall == <<"wreckingBall", 0, 0>>
Ground == <<"ground", 0, 0>>
Box(x, y) == <<"box", x, y>>

\* mesh.name
MeshName(m) == IF m[1] = "link_" THEN <<m[1], m[2]>> ELSE <<m[1]>>
\* name.startsWith(prefix), for a one-part prefix
StartsWith(name, prefix) == name[1] = prefix

VecAdd(p, q) == <<p[1] + q[1], p[2] + q[2], p[3] + q[3]>>
Scale(v, c) == <<v[1] * c, v[2] * c, v[3] * c>>

EmptyPlayground ==
    [meshes |-> {}, bodies |-> {}, joints |-> {}, pos |-> <<>>, mass |-> <<>>]

\* new PhysicsAggregate(mesh, _, { mass: mass }, scene), mass in tenths
addAggregate(g, mesh, mass) ==
    [g EXCEPT !.meshes = @ \cup {mesh}, !.bodies = @ \cup {mesh},
              !.mass = With(@, mesh, mass)]

\* mesh.position = position
place(g, mesh, position) ==
    [g EXCEPT !.pos = With(@, mesh, position)]

\* createJoint: aggA.body.addConstraint(aggB.body, joint)
createJoint(g, aggA, aggB) == [g EXCEPT !.joints = @ \cup {<<aggA, aggB>>}]

linkCount == 10
linkDist == 8

\* createLinks that places link i at i * linkDist below the anchor
RECURSIVE createLinksFromAnchor(_, _, _, _)
createLinksFromAnchor(g, anchorPos, i, previousAgg) ==
    IF i < linkCount
    THEN LET link == Link(i)
             g1 == addAggregate(
                       place(g, link, VecAdd(anchorPos, Vec(0, -(i * linkDist), 0))),
                       link, 10)
         IN  createLinksFromAnchor(createJoint(g1, previousAgg, link), anchorPos, i + 1, link)
    ELSE <<g, previousAgg>>

\* The loop of createPendulum from iteration i on; the result is <<g, previousAgg>>.
RECURSIVE createLinks(_, _, _, _)
createLinks(g, anchorPos, i, previousAgg) ==
    IF i < linkCount
    THEN LET link == Link(i)
             g1 == addAggregate(
                       place(g, link, VecAdd(anchorPos, Vec(0, -((i + 1) * linkDist), 0))),
                       link, 10)
         IN  createLinks(createJoint(g1, previousAgg, link), anchorPos, i + 1, link)
    ELSE <<g, previousAgg>>

createPendulum(g, anchorPos) ==
    LET g1 == addAggregate(place(g, PmAnchor, anchorPos), PmAnchor, 0)
        chained == createLinks(g1, anchorPos, 0, PmAnchor)
        g2 == chained[1]
        previousAgg == chained[2]
        g3 == addAggregate(
                  place(g2, WreckingBall, VecAdd(g2.pos[previousAgg], Vec(0, -20, 0))),
                  WreckingBall, 500)
    IN  createJoint(g3, previousAgg, WreckingBall)

\* The two loops of createTower: a box for x in -1..1 and y in 0..5.
RECURSIVE createTower(_, _, _)
createTower(g, x, y) ==
    IF y >= 6 THEN g
    ELSE IF x > 1 THEN createTower(g, -1, y + 1)
    ELSE createTower(addAggregate(g, Box(x, y), 20), x + 1, y)

LoadedPlayground ==
    LET g1 == addAggregate(EmptyPlayground, Ground, 0)
        g2 == createPendulum(g1, Vec(0, 150, 0))
    IN  createTower(g2, -1, 0)

pmLoad ==
    /\ ~pmLoaded
    /\ LET g == LoadedPlayground
       IN  /\ pmMeshes' = g.meshes
           /\ pmBodies' = g.bodies
           /\ pmJoints' = g.joints
           /\ pmPos' = g.pos
           /\ pmMass' = g.mass
    /\ pmLoaded' = TRUE
    /\ pmImpulses' = <<>>
    /\ UNCHANGED <<gameVars, vehVars, engVars>>

Impulse == 500

\* isLink with an empty prefix: every name starts with ""
isLinkAnyName(mesh) == TRUE

\* mesh.name.startsWith("link_")
isLink(mesh) == StartsWith(MeshName(mesh), "link_")

\* pushImpulse towards the camera: forward.scale(-500)
pushImpulseBackward(forward) == Scale(forward, -Impulse)

\* forward.scale(500)
pushImpulse(forward) == Scale(forward, Impulse)

\* The observer of PhysicsModule.setupInteraction, for one pointer event; forward
\* is the direction of the active camera's forward ray, a unit vector.
pmOnPointer(type, hit, pickedMesh, forward) ==
    /\ pmLoaded
    /\ IF type = "POINTERDOWN" /\ hit
       THEN LET mesh == pickedMesh
                cut == isLink(mesh)
                sc == IF cut THEN DisposeMesh(<<pmMeshes, pmBodies, pmJoints>>, mesh)
                             ELSE <<pmMeshes, pmBodies, pmJoints>>
            IN  /\ pmMeshes' = sc[1]
                /\ pmBodies' = sc[2]
                /\ pmJoints' = sc[3]
                /\ pmImpulses' =
                       IF MeshName(mesh) = <<"wreckingBall">>
                       THEN <<[body |-> mesh, impulse |-> pushImpulse(forward)]>>
                       ELSE <<>>
       ELSE /\ pmImpulses' = <<>>
            /\ UNCHANGED <<pmMeshes, pmBodies, pmJoints>>
    /\ UNCHANGED <<pmLoaded, pmPos, pmMass>>
    /\ UNCHANGED <<gameVars, vehVars, engVars>>

(***************************************************************************)
(* Inputs                                                                  *)
(***************************************************************************)
NoMesh == <<"null", 0, 0>>

\* The meshes a pointer is released on
UpPicks == {<<"ropeSegment", 1, 4>>, <<"bubble", 0, 0>>, <<"link_", 3, 0>>,
            <<"wreckingBall", 0, 0>>}

\* The pointer events whose pick, if any, is one of meshes: a press on each, a
\* release on some, and a press that hits nothing.
PointerEvents(meshes) ==
    {<<"POINTERDOWN", TRUE, m>> : m \in meshes}
        \cup {<<"POINTERUP", TRUE, m>> : m \in meshes \cap UpPicks}
        \cup {<<"POINTERDOWN", FALSE, NoMesh>>}

\* Where the physics engine may have put the candy and the two bubbles when a
\* frame is rendered. The blowers are at (-8,0,0) and (8,-2,0), the stars at
\* (-2,6,0), (2,3,0) and (0,-2,0), the goal at (0,-8,0).
AtRest == <<Vec(-30, 40, 0), Vec(30, 20, 0)>>
Worlds ==
    {[candy |-> Vec(0, 80, 0), bubble |-> AtRest],      \* where load() puts it
     [candy |-> Vec(-20, 65, 0), bubble |-> AtRest],    \* 0.5 from star 0
     [candy |-> Vec(-30, 45, 0), bubble |-> AtRest],    \* 0.5 from bubble 0
     [candy |-> Vec(30, 32, 0), bubble |-> AtRest],     \* 1.2 from bubble 1, near star 1
     [candy |-> Vec(-10, 0, 0),                         \* in both bubbles, 7 from blower 0
      bubble |-> <<Vec(-15, 0, 0), Vec(-5, 0, 0)>>],
     [candy |-> Vec(0, 0, 0), bubble |-> AtRest],       \* 8 from blower 0
     [candy |-> Vec(-40, 0, 0), bubble |-> AtRest],     \* 4 from blower 0
     [candy |-> Vec(-40, 30, 0), bubble |-> AtRest],    \* 5 from blower 0
     [candy |-> Vec(-80, 0, 0), bubble |-> AtRest],     \* at blower 0
     [candy |-> Vec(50, -20, 0), bubble |-> AtRest],    \* 3 from blower 1
     [candy |-> Vec(0, -25, 0), bubble |-> AtRest],     \* 0.5 from star 2
     [candy |-> Vec(0, -60, 0), bubble |-> AtRest],     \* 2 from the goal
     [candy |-> Vec(0, -70, 0), bubble |-> AtRest]}     \* 1 from the goal

\* The frames of the rope-cutting specification: at the start, at star 0, at the goal.
CutWorlds ==
    {[candy |-> Vec(0, 80, 0), bubble |-> AtRest],
     [candy |-> Vec(-20, 65, 0), bubble |-> AtRest],
     [candy |-> Vec(0, -70, 0), bubble |-> AtRest]}

\* The unit vectors the camera's forward ray is drawn from.
Forwards == {Vec(0, 0, 1), Vec(0, -1, 0)}

\* The segment meshes listed in a list of ropes
SegmentsOf(rs) ==
    UNION {{rs[r].segments[i] : i \in 1..Len(rs[r].segments)} : r \in 1..Len(rs)}

\* The segments that have been cut
CutSegments == SegmentsOf(ropes) \ sceneMeshes

\* The most segments cut in the rope-cutting specification
MaxCuts == 1

\* The meshes picked in the play specification: one segment, and the rest
PlayPicks ==
    {Segment(1, 4), BubbleMesh(0), BubbleMesh(1), Candy, Goal, StarMesh(0), Anchor(0)}

\* The meshes picked in the rope-cutting specification: every segment, and the rest
CutPicks ==
    SegmentsOf(ropes) \cup {BubbleMesh(0), Candy, Goal, Anchor(2)}

(***************************************************************************)
(* Vehicle. Impulses are in scene units along a unit forward vector,       *)
(* angular velocities in hundredths (0.05 is 5).                           *)
(***************************************************************************)
\* The keyboard event types: 1 is KEYDOWN, 2 is KEYUP
KEYDOWN == 1
KEYUP == 2

Chassis == <<"chassis", 0, 0>>
WheelMesh(name) == <<name, 0, 0>>

\* The vehicle as the constructor leaves it: the chassis mesh alone
NewVehicle == [meshes |-> {Chassis}, bodies |-> {}, joints |-> {}]

\* createWheel: a wheel mesh, its body, and its weld to the chassis body
createWheel(v, name) ==
    [v EXCEPT !.meshes = @ \cup {WheelMesh(name)},
              !.bodies = @ \cup {WheelMesh(name)},
              !.joints = @ \cup {<<Chassis, WheelMesh(name)>>}]

\* build(): the chassis body, then the four wheels
BuiltVehicle ==
    LET v0 == [NewVehicle EXCEPT !.bodies = @ \cup {Chassis}]
        v1 == createWheel(v0, "wheel_FL")
        v2 == createWheel(v1, "wheel_FR")
        v3 == createWheel(v2, "wheel_RL")
    IN  createWheel(v3, "wheel_RR")

NoFrame ==
    [forward |-> Vec(0, 0, 0), impulses |-> <<>>, angVelRead |-> Vec(0, 0, 0),
     angVel |-> Vec(0, 0, 0), sets |-> 0]

\* build(), which ends by registering the two observers of setupInputs
build ==
    /\ vehState = "constructed"
    /\ vehState' = "built"
    /\ vehMeshes' = BuiltVehicle.meshes
    /\ vehBodies' = BuiltVehicle.bodies
    /\ vehJoints' = BuiltVehicle.joints
    /\ UNCHANGED <<inputMap, vehFrame, lastKeyEvent>>
    /\ UNCHANGED <<gameVars, pmVars, engVars>>

\* key.toLowerCase(), on the keys of the model
ToLowerCase(key) ==
    CASE key = "M" -> "m"
      [] key = "W" -> "w"
      [] OTHER -> key

\* The keyboard observer of setupInputs, for one keyboard event
vehOnKeyboard(type, eventKey) ==
    /\ vehState = "built"
    /\ LET key == ToLowerCase(eventKey)
           m1 == IF type = 1 THEN With(inputMap, key, TRUE) ELSE inputMap
           m2 == IF type = 2 THEN With(m1, key, FALSE) ELSE m1
       IN  inputMap' = m2
    /\ lastKeyEvent' = With(lastKeyEvent, ToLowerCase(eventKey), type)
    /\ vehFrame' = NoFrame
    /\ UNCHANGED <<vehState, vehMeshes, vehBodies, vehJoints>>
    /\ UNCHANGED <<gameVars, pmVars, engVars>>

\* this.inputMap[key], as a condition
pressed(map, key) == key \in DOMAIN map /\ map[key]

DriveImpulse == 5
TurnRate == 5

\* The impulses of a frame with "s" tested only when "w" is not pressed
driveImpulsesElseIf(map, forward) ==
    IF pressed(map, "w") THEN <<Scale(forward, DriveImpulse)>>
    ELSE IF pressed(map, "s") THEN <<Scale(forward, -DriveImpulse)>>
    ELSE <<>>

\* The impulses the before-render callback applies to the chassis, in order
driveImpulses(map, forward) ==
    (IF pressed(map, "w") THEN <<Scale(forward, DriveImpulse)>> ELSE <<>>)
        \o (IF pressed(map, "s") THEN <<Scale(forward, -DriveImpulse)>> ELSE <<>>)

\* The angular velocity the callback leaves, and its calls of setAngularVelocity:
\* each call adds to what getAngularVelocity returns at that moment
turn(map, angVel) ==
    LET a == pressed(map, "a")
        d == pressed(map, "d")
        av1 == IF a THEN VecAdd(angVel, Vec(0, -TurnRate, 0)) ELSE angVel
        av2 == IF d THEN VecAdd(av1, Vec(0, TurnRate, 0)) ELSE av1
    IN  [angVel |-> av2, sets |-> (IF a THEN 1 ELSE 0) + (IF d THEN 1 ELSE 0)]

\* The before-render observer of setupInputs, for one frame in which the chassis
\* points along forward and turns at angVel
vehBeforeRender(forward, angVel) ==
    /\ vehState = "built"
    /\ Chassis \in vehBodies
    /\ vehFrame' = [forward |-> forward,
                    impulses |-> driveImpulses(inputMap, forward),
                    angVelRead |-> angVel,
                    angVel |-> turn(inputMap, angVel).angVel,
                    sets |-> turn(inputMap, angVel).sets]
    /\ UNCHANGED <<vehState, vehMeshes, vehBodies, vehJoints, inputMap, lastKeyEvent>>
    /\ UNCHANGED <<gameVars, pmVars, engVars>>

(***************************************************************************)
(* MotusEngine: init() step by step, one action per await                  *)
(***************************************************************************)
NoEngine == "null"
NoScene == [engine |-> NoEngine, physics |-> FALSE]

\* new Scene(engine): bound to the engine, physics not enabled
newScene(e) == [engine |-> e, physics |-> FALSE]

\* init() is called and waits for WebGPUEngine.IsSupportedAsync
init ==
    /\ engPc = "constructed"
    /\ engPc' = "IsSupportedAsync"
    /\ UNCHANGED <<engines, engine, scene, engSetup, engLog, matrixMode, engMeshes,
                   renderOutline, matrixTrail>>
    /\ UNCHANGED <<gameVars, pmVars, vehVars>>

\* IsSupportedAsync resolves: a WebGPU engine is created and init() waits for its
\* initAsync(), or a WebGL engine is created and init() goes on to the physics
isSupportedResolved(webGPUSupported) ==
    /\ engPc = "IsSupportedAsync"
    /\ IF webGPUSupported
       THEN /\ engines' = Append(engines, "WebGPU")
            /\ engPc' = "initAsync"
            /\ UNCHANGED <<engine, scene, engLog>>
       ELSE /\ engines' = Append(engines, "WebGL")
            /\ engine' = "WebGL"
            /\ engLog' = engLog \cup {<<"log", "WebGL Engine Initialized">>}
            /\ scene' = newScene("WebGL")
            /\ engPc' = "HavokPhysics"
    /\ UNCHANGED <<engSetup, matrixMode, engMeshes, renderOutline, matrixTrail>>
    /\ UNCHANGED <<gameVars, pmVars, vehVars>>

\* initAsync() of the WebGPU engine settles: resolved, init() goes on to the
\* physics; rejected, nothing catches it and init() rejects
initAsyncSettled(resolved) ==
    /\ engPc = "initAsync"
    /\ IF resolved
       THEN /\ engine' = "WebGPU"
            /\ engLog' = engLog \cup {<<"log", "WebGPU Engine Initialized">>}
            /\ scene' = newScene("WebGPU")
            /\ engPc' = "HavokPhysics"
       ELSE /\ engPc' = "rejected"
            /\ UNCHANGED <<engine, scene, engLog>>
    /\ UNCHANGED <<engines, engSetup, matrixMode, engMeshes, renderOutline, matrixTrail>>
    /\ UNCHANGED <<gameVars, pmVars, vehVars>>

\* How the physics initialisation can end: well, or with HavokPhysics() or the
\* HavokPlugin constructor throwing
HavokOutcomes == {"ok", "HavokPhysics throws", "HavokPlugin throws"}

\* The physics block without its try: the error leaves init()
initPhysicsUncaught(sc, outcome) ==
    IF outcome = "ok"
    THEN [scene |-> [sc EXCEPT !.physics = TRUE],
          log |-> <<"log", "Havok Physics Initialized">>, thrown |-> FALSE]
    ELSE [scene |-> sc, log |-> <<"log", "">>, thrown |-> TRUE]

\* The try/catch around the physics initialisation: physics is enabled on the
\* scene, or the error is caught and logged; nothing is thrown on
initPhysics(sc, outcome) ==
    IF outcome = "ok"
    THEN [scene |-> [sc EXCEPT !.physics = TRUE],
          log |-> <<"log", "Havok Physics Initialized">>, thrown |-> FALSE]
    ELSE [scene |-> sc,
          log |-> <<"error", "Failed to initialize Havok Physics">>, thrown |-> FALSE]

\* What init() sets up after the physics, in order
SetUp == <<"light", "camera", "matrixView", "renderLoop", "resize">>

\* The physics initialisation settles and init() runs to its end
havokSettled(outcome) ==
    /\ engPc = "HavokPhysics"
    /\ LET r == initPhysics(scene, outcome)
       IN  IF r.thrown
           THEN /\ engPc' = "rejected"
                /\ UNCHANGED <<scene, engLog, engSetup>>
           ELSE /\ scene' = r.scene
                /\ engLog' = engLog \cup {r.log}
                /\ engSetup' = SetUp
                /\ engPc' = "done"
    /\ matrixMode' = FALSE
    /\ UNCHANGED <<engines, engine, engMeshes, renderOutline, matrixTrail>>
    /\ UNCHANGED <<gameVars, pmVars, vehVars>>

\* The test of the matrix-view observer with the event type left out
isToggleAnyType(type, key) == key = "m"

\* The test of the matrix-view observer
isToggle(type, key) == type = KEYDOWN /\ key = "m"

\* The last two entries of trail followed by mode
Trail(trail, mode) ==
    IF Len(trail) < 2 THEN Append(trail, mode) ELSE <<trail[2], mode>>

\* The observer of setupMatrixView, for one keyboard event
matrixOnKeyboard(type, key) ==
    /\ engPc = "done"
    /\ IF isToggle(type, key)
       THEN /\ matrixMode' = ~matrixMode
            /\ engLog' = engLog \cup {<<"log", IF ~matrixMode THEN "Matrix View Enabled"
                                                            ELSE "Matrix View Disabled">>}
            /\ renderOutline' = IF ~matrixMode THEN renderOutline \cup engMeshes
                                               ELSE renderOutline \ engMeshes
            /\ matrixTrail' = Trail(matrixTrail, matrixMode)
       ELSE UNCHANGED <<matrixMode, engLog, renderOutline, matrixTrail>>
    /\ UNCHANGED <<engPc, engines, engine, scene, engSetup, engMeshes>>
    /\ UNCHANGED <<gameVars, pmVars, vehVars>>

\* The most meshes in the engine's scene
MaxMeshes == 3

\* A module creates a mesh in the scene init() made: renderOutline starts false
engAddMesh(m) ==
    /\ engPc = "done"
    /\ m \notin engMeshes
    /\ engMeshes' = engMeshes \cup {m}
    /\ UNCHANGED <<engPc, engines, engine, scene, engSetup, engLog, matrixMode,
                   renderOutline, matrixTrail>>
    /\ UNCHANGED <<gameVars, pmVars, vehVars>>

\* A module disposes a mesh of the scene
engDisposeMesh(m) ==
    /\ engPc = "done"
    /\ m \in engMeshes
    /\ engMeshes' = engMeshes \ {m}
    /\ renderOutline' = renderOutline \ {m}
    /\ UNCHANGED <<engPc, engines, engine, scene, engSetup, engLog, matrixMode,
                   matrixTrail>>
    /\ UNCHANGED <<gameVars, pmVars, vehVars>>

(***************************************************************************)
(* Specifications                                                          *)
(***************************************************************************)
Init ==
    /\ gameLoaded = FALSE
    /\ sceneMeshes = {}
    /\ physBodies = {}
    /\ constraints = {}
    /\ ropes = <<>>
    /\ airBlowers = <<>>
    /\ bubbles = <<>>
    /\ isPopped = <<>>
    /\ popCount = <<>>
    /\ stars = <<>>
    /\ starsCollected = 0
    /\ gameWon = FALSE
    /\ world = [candy |-> Vec(0, 0, 0), bubble |-> <<>>]
    /\ applied = NoForces
    /\ bodyMass = <<>>
    /\ pmLoaded = FALSE
    /\ pmMeshes = {}
    /\ pmBodies = {}
    /\ pmJoints = {}
    /\ pmPos = <<>>
    /\ pmMass = <<>>
    /\ pmImpulses = <<>>
    /\ vehState = "constructed"
    /\ vehMeshes = NewVehicle.meshes
    /\ vehBodies = NewVehicle.bodies
    /\ vehJoints = NewVehicle.joints
    /\ inputMap = <<>>
    /\ vehFrame = NoFrame
    /\ lastKeyEvent = <<>>
    /\ engPc = "constructed"
    /\ engines = <<>>
    /\ engine = NoEngine
    /\ scene = NoScene
    /\ engSetup = <<>>
    /\ engLog = {}
    /\ matrixMode = FALSE
    /\ engMeshes = {}
    /\ renderOutline = {}
    /\ matrixTrail = <<>>

\* A pointer event of the game on one of picks
PointerEvent(picks) ==
    \E e \in PointerEvents(picks \cap sceneMeshes) : onPointer(e[1], e[2], e[3])

\* A pointer event of the game that cuts at most MaxCuts segments
BoundedPointerEvent ==
    \E e \in PointerEvents(CutPicks \cap sceneMeshes) :
        /\ (e[1] = "POINTERDOWN" /\ IsCuttable(e[3])) => Cardinality(CutSegments) < MaxCuts
        /\ onPointer(e[1], e[2], e[3])

RenderFrame == \E w \in Worlds : renderFrame(w)

RenderCutFrame == \E w \in CutWorlds : renderFrame(w)

StarAnimationEnd == \E k \in 1..Len(stars) : starAnimationEnd(k)

PlayPointerEvent == PointerEvent(PlayPicks)

\* The game, played: every frame position, one rope segment to cut
Next ==
    \/ load
    \/ PlayPointerEvent
    \/ RenderFrame
    \/ StarAnimationEnd
    \/ winAnimationEnd

Spec == Init /\ [][Next]_vars

\* The game, cut: every rope segment to cut, frames at the start and at the goal
NextCut ==
    \/ load
    \/ BoundedPointerEvent
    \/ RenderCutFrame
    \/ StarAnimationEnd
    \/ winAnimationEnd

SpecCut == Init /\ [][NextCut]_vars

\* The meshes picked in the playground: every link, the anchor, the ball, the
\* ground and two boxes of the tower
PmPicks ==
    {Link(i) : i \in 0..9} \cup {PmAnchor, WreckingBall, Ground, Box(0, 0), Box(1, 5)}

PmPointerEvent ==
    \E e \in PointerEvents(PmPicks \cap pmMeshes) : \E forward \in Forwards :
        pmOnPointer(e[1], e[2], e[3], forward)

\* The wrecking-ball playground
NextWreck ==
    \/ pmLoad
    \/ PmPointerEvent

SpecWreck == Init /\ [][NextWreck]_vars

\* The meshes picked in the rope-severing specification: the first and the last
\* segment of every rope, a segment in the middle of the second rope, a bubble
\* and the candy
SeverPicks ==
    {Segment(0, 0), Segment(0, 7), Segment(1, 0), Segment(1, 4), Segment(1, 9),
     Segment(2, 0), Segment(2, 11), BubbleMesh(0), Candy}

SeverPointerEvent == PointerEvent(SeverPicks)

\* The game, severed: any number of cuts at the ends of the three ropes and in
\* the middle of one
NextSever ==
    \/ load
    \/ SeverPointerEvent
    \/ RenderCutFrame
    \/ StarAnimationEnd
    \/ winAnimationEnd

SpecSever == Init /\ [][NextSever]_vars

\* The keys of the keyboard events
Keys == {"m", "M", "w", "W", "s", "a", "d"}

IsSupportedResolved == \E webGPUSupported \in BOOLEAN : isSupportedResolved(webGPUSupported)

InitAsyncSettled == \E resolved \in BOOLEAN : initAsyncSettled(resolved)

HavokSettled == \E outcome \in HavokOutcomes : havokSettled(outcome)

MatrixKeyboardEvent == \E type \in {KEYDOWN, KEYUP} : \E key \in Keys : matrixOnKeyboard(type, key)

EngAddMesh == \E m \in 1..MaxMeshes : engAddMesh(m)

EngDisposeMesh == \E m \in 1..MaxMeshes : engDisposeMesh(m)

\* The engine: init() with every outcome of its awaits, then keys and meshes
NextEngine ==
    \/ init
    \/ IsSupportedResolved
    \/ InitAsyncSettled
    \/ HavokSettled
    \/ MatrixKeyboardEvent
    \/ EngAddMesh
    \/ EngDisposeMesh

SpecEngine == Init /\ [][NextEngine]_vars

\* The unit vectors the chassis may point along, and the angular velocities it
\* may have, when a frame is rendered
ChassisForwards == {Vec(0, 0, 1), Vec(1, 0, 0)}
AngVels == {Vec(0, 0, 0), Vec(0, 20, 0), Vec(3, -5, 1)}

VehKeyboardEvent ==
    \E type \in {KEYDOWN, KEYUP} : \E key \in Keys : vehOnKeyboard(type, key)

VehBeforeRender ==
    \E forward \in ChassisForwards : \E angVel \in AngVels : vehBeforeRender(forward, angVel)

\* The vehicle: built, then driven with every key in every frame
NextVehicle ==
    \/ build
    \/ VehKeyboardEvent
    \/ VehBeforeRender

SpecVehicle == Init /\ [][NextVehicle]_vars

(***************************************************************************)
(* Connectivity through joints                                             *)
(***************************************************************************)
\* The bodies reachable from the bodies of S along the joints of J, either way
RECURSIVE Reach(_, _)
Reach(S, J) ==
    LET N == S \cup {j[2] : j \in {e \in J : e[1] \in S}}
               \cup {j[1] : j \in {e \in J : e[2] \in S}}
    IN  IF N = S THEN S ELSE Reach(N, J)

Connected(a, b, J) == b \in Reach({a}, J)

\* The bodies of rope r: its anchor, its segments and the candy
RopeBodies(r) ==
    {ropes[r].anchorMesh, Candy}
        \cup {ropes[r].segments[i] : i \in 1..Len(ropes[r].segments)}

\* The joints of J between bodies of rope r
RopeJoints(r, J) == {j \in J : j[1] \in RopeBodies(r) /\ j[2] \in RopeBodies(r)}

\* The ropes with a segment cut
CutRopes ==
    {r \in 1..Len(ropes) :
        \E i \in 1..Len(ropes[r].segments) : ropes[r].segments[i] \notin sceneMeshes}

(***************************************************************************)
(* Claims                                                                  *)
(***************************************************************************)

\* C1: a POINTERDOWN that picks a rope segment disposes that segment (mesh and
\* body), and in every state from then on the candy is not connected to that
\* rope's anchor through that rope's joints, for every rope and every segment.
C1_CutBreaksRope ==
    /\ [][\A m \in SegmentsOf(ropes) \cap sceneMeshes :
              onPointer("POINTERDOWN", TRUE, m)
                  => /\ m \notin sceneMeshes'
                     /\ m \notin physBodies'
                     /\ \A r \in 1..Len(ropes) :
                            m \in RopeBodies(r)
                                => ~Connected(ropes[r].anchorMesh, Candy,
                                              RopeJoints(r, constraints'))]_vars
    /\ [](\A r \in CutRopes :
              ~Connected(ropes[r].anchorMesh, Candy, RopeJoints(r, constraints)))

\* A segment of the first rope is cut while the candy and the anchor still exist,
\* and the rope no longer joins them; the other two ropes still do.
C1_Witness ==
    /\ gameLoaded
    /\ CutRopes = {1}
    /\ Candy \in physBodies
    /\ ropes[1].anchorMesh \in physBodies
    /\ ~Connected(ropes[1].anchorMesh, Candy, RopeJoints(1, constraints))
    /\ Connected(ropes[2].anchorMesh, Candy, RopeJoints(2, constraints))
    /\ Connected(ropes[3].anchorMesh, Candy, RopeJoints(3, constraints))

\* C2: gameWon becomes true in a step exactly when the step is a rendered frame
\* of a game not yet won in which the candy is at distance < 2 from the goal;
\* gameWon never becomes false again. Neither a collected star nor a cut rope
\* is needed (the witness).
C2_WinIffAtGoal ==
    [][/\ (~gameWon /\ gameWon')
            <=> (\E w \in Worlds :
                    /\ renderFrame(w)
                    /\ ~gameWon
                    /\ DistSq(w.candy, GoalPos) < 20 * 20)
       /\ gameWon => gameWon']_vars

\* The game is won with no star collected, no segment cut and no bubble popped.
C2_Witness ==
    /\ gameLoaded
    /\ gameWon
    /\ starsCollected = 0
    /\ \A k \in 1..Len(stars) : ~stars[k].collected
    /\ CutSegments = {}
    /\ \A b \in 1..Len(bubbles) : ~isPopped[b]

\* The stars that a frame at w has to collect
StarsDue(w) ==
    {k \in 1..Len(stars) :
        /\ ~stars[k].collected
        /\ stars[k].mesh \in sceneMeshes
        /\ DistSq(w.candy, stars[k].position) < 12 * 12}

\* C3: a frame before the win collects exactly the stars that are not collected,
\* not disposed and at distance < 1.2 from the candy, adding one to
\* starsCollected for each; no other step changes a star or the count, a
\* collected star stays collected, and the count is the number of collected
\* stars, so that no star is counted twice.
C3_StarsCollectedOnce ==
    /\ [][/\ \A w \in Worlds :
                 (renderFrame(w) /\ ~gameWon)
                     => /\ \A k \in 1..Len(stars) :
                               stars'[k].collected
                                   <=> (stars[k].collected \/ k \in StarsDue(w))
                        /\ starsCollected' = starsCollected + Cardinality(StarsDue(w))
          /\ ((\A w \in Worlds : ~renderFrame(w)) \/ gameWon)
                 => (gameLoaded => UNCHANGED <<stars, starsCollected>>)]_vars
    /\ [](gameLoaded =>
              starsCollected = Cardinality({k \in 1..Len(stars) : stars[k].collected}))

\* A star is collected, its mesh is not disposed yet, the candy is still within
\* 1.2 of it in the latest frame, and it has been counted once.
C3_Witness ==
    /\ gameLoaded
    /\ ~gameWon
    /\ starsCollected = 1
    /\ \E k \in 1..Len(stars) :
           /\ stars[k].collected
           /\ stars[k].mesh \in sceneMeshes
           /\ DistSq(world.candy, stars[k].position) < 12 * 12

\* The calls in a log (a sequence of records with a "by" field) made for mesh m
CallsBy(log, m) == {i \in 1..Len(log) : log[i].by = m}

\* C4: a POINTERDOWN that picks a bubble whose isPopped is false sets isPopped
\* and disposes the mesh; popBubble runs at most once for each bubble; and no
\* handler applies a float force or a damping for a bubble that is popped.
C4_BubblePoppedOnce ==
    /\ [][\A b \in 1..Len(bubbles) :
              (/\ bubbles[b].mesh \in sceneMeshes
               /\ ~isPopped[b]
               /\ onPointer("POINTERDOWN", TRUE, bubbles[b].mesh))
                  => /\ isPopped'[b]
                     /\ bubbles[b].mesh \notin sceneMeshes'
                     /\ popCount'[b] = 1]_vars
    /\ [](\A b \in 1..Len(bubbles) :
              /\ popCount[b] <= 1
              /\ isPopped[b] <=> popCount[b] = 1
              /\ isPopped[b] =>
                     /\ CallsBy(applied.forces, bubbles[b].mesh) = {}
                     /\ CallsBy(applied.damp, bubbles[b].mesh) = {})

\* The first bubble is popped, and the latest frame, with the candy within 1.2
\* of both bubbles' places, got a float force from the second bubble only.
C4_Witness ==
    /\ gameLoaded
    /\ isPopped[1] /\ ~isPopped[2]
    /\ DistSq(world.candy, world.bubble[1]) < 12 * 12
    /\ CallsBy(applied.forces, bubbles[2].mesh) # {}
    /\ CallsBy(applied.forces, bubbles[1].mesh) = {}

\* C5: in a frame before the win, each unpopped bubble applies to the candy one
\* upward force of its floatForce, 25, and one scaling of the x and z velocity
\* by 0.98, exactly when the candy is at distance < 1.2 from it, and nothing at
\* distance >= 1.2; two bubbles in range both apply theirs in the same frame.
C5_BubblesFloat ==
    [][\A w \in Worlds :
           (renderFrame(w) /\ ~gameWon)
               => \A b \in 1..Len(bubbles) :
                      ~isPopped[b] =>
                          LET forces == CallsBy(applied'.forces, bubbles[b].mesh)
                              damps == CallsBy(applied'.damp, bubbles[b].mesh)
                          IN  IF DistSq(w.candy, w.bubble[b]) < 12 * 12
                              THEN /\ Cardinality(forces) = 1
                                   /\ Cardinality(damps) = 1
                                   /\ \A i \in forces :
                                          /\ applied'.forces[i].direction
                                                 = [of |-> Vec(0, 1, 0), unit |-> TRUE]
                                          /\ applied'.forces[i].num = 25
                                          /\ applied'.forces[i].den = 1
                                   /\ \A i \in damps :
                                          /\ applied'.damp[i].x = 98
                                          /\ applied'.damp[i].z = 98
                              ELSE forces = {} /\ damps = {}]_vars

\* Both bubbles applied their force and their damping in the latest frame.
C5_Witness ==
    /\ gameLoaded
    /\ \A b \in 1..Len(bubbles) :
           /\ CallsBy(applied.forces, bubbles[b].mesh) # {}
           /\ CallsBy(applied.damp, bubbles[b].mesh) # {}
    /\ Len(applied.damp) = 2

\* C6: in a frame before the win, a blower applies a force to the candy exactly
\* when the candy's distance d from it is < range; the force is along the
\* blower's unit direction and of magnitude force * (1 - d / range), which is
\* > 0, at most force, smaller than at every smaller distance and larger than
\* at every larger distance within range; at d >= range it applies none.
C6_BlowerFalloff ==
    [][\A w \in Worlds :
           (renderFrame(w) /\ ~gameWon)
               => \A k \in 1..Len(airBlowers) :
                      LET blower == airBlowers[k]
                          d == Distance(w.candy, blower.position)
                          forces == CallsBy(applied'.forces, blower.mesh)
                      IN  IF DistSq(w.candy, blower.position) < blower.range * blower.range
                          THEN /\ Cardinality(forces) = 1
                               /\ \A i \in forces :
                                      LET f == applied'.forces[i]
                                      IN  /\ f.direction = blower.direction
                                          /\ f.direction.unit
                                          /\ f.den > 0
                                          /\ f.num * blower.range
                                                 = blower.force * (blower.range - d) * f.den
                                          /\ f.num > 0
                                          /\ f.num <= blower.force * f.den
                                          /\ \A d2 \in 0..(blower.range - 1) :
                                                 LET g == blowerForce(blower, d2)
                                                 IN  /\ d2 < d => g.num * f.den > f.num * g.den
                                                     /\ d2 > d => g.num * f.den < f.num * g.den
                          ELSE forces = {}]_vars

\* A blower pushed the candy in the latest frame with less than its full force.
C6_Witness ==
    /\ gameLoaded
    /\ \E i \in 1..Len(applied.forces) :
           /\ applied.forces[i].by = airBlowers[1].mesh
           /\ applied.forces[i].num > 0
           /\ applied.forces[i].num < airBlowers[1].force * applied.forces[i].den

\* The links of the chain
Links == {Link(i) : i \in 0..9}

\* The links that have been removed
CutLinks == {l \in Links : l \notin pmMeshes}

\* The playground's meshes that are not links
PmFixtures ==
    {PmAnchor, WreckingBall, Ground} \cup {Box(x, y) : x \in -1..1, y \in 0..5}

\* C7: a POINTERDOWN that picks a mesh named link_i removes that link (mesh and
\* body); the removal leaves every link above it that was connected to the
\* anchor connected to the anchor and every link below it that was connected
\* to the ball connected to the ball; once a link is removed the ball is not
\* connected to the anchor in any later state; and the anchor, the ball, the
\* tower boxes and the ground are never removed.
C7_LinkCutBreaksChain ==
    /\ [][\A i \in 0..9 : \A forward \in Forwards :
              (Link(i) \in pmMeshes /\ pmOnPointer("POINTERDOWN", TRUE, Link(i), forward))
                  => /\ Link(i) \notin pmMeshes'
                     /\ Link(i) \notin pmBodies'
                     /\ ~Connected(PmAnchor, WreckingBall, pmJoints')
                     /\ \A j \in 0..9 :
                            /\ (j < i /\ Connected(PmAnchor, Link(j), pmJoints))
                                   => Connected(PmAnchor, Link(j), pmJoints')
                            /\ (j > i /\ Connected(Link(j), WreckingBall, pmJoints))
                                   => Connected(Link(j), WreckingBall, pmJoints')]_vars
    /\ [](pmLoaded =>
              /\ CutLinks # {} => ~Connected(PmAnchor, WreckingBall, pmJoints)
              /\ PmFixtures \subseteq pmMeshes
              /\ PmFixtures \subseteq pmBodies)

\* Link 4 alone is removed: the links above it hang from the anchor, the links
\* below it hold the ball, and the ball is cut off the anchor.
C7_Witness ==
    /\ pmLoaded
    /\ CutLinks = {Link(4)}
    /\ \A j \in 0..3 : Connected(PmAnchor, Link(j), pmJoints)
    /\ \A j \in 5..9 : Connected(Link(j), WreckingBall, pmJoints)
    /\ ~Connected(PmAnchor, WreckingBall, pmJoints)

Dot(p, q) == p[1] * q[1] + p[2] * q[2] + p[3] * q[3]
Cross(p, q) ==
    <<p[2] * q[3] - p[3] * q[2], p[3] * q[1] - p[1] * q[3], p[1] * q[2] - p[2] * q[1]>>

\* C8: a POINTERDOWN that picks the wrecking ball applies exactly one impulse, to
\* the ball's body, of magnitude 500 along the camera's forward direction,
\* whether or not a link has been removed, and it changes no mesh, body, joint,
\* position or mass.
C8_PushBall ==
    [][\A forward \in Forwards :
           pmOnPointer("POINTERDOWN", TRUE, WreckingBall, forward)
               => /\ Len(pmImpulses') = 1
                  /\ pmImpulses'[1].body = WreckingBall
                  /\ Dot(pmImpulses'[1].impulse, pmImpulses'[1].impulse) = 500 * 500
                  /\ Cross(pmImpulses'[1].impulse, forward) = Vec(0, 0, 0)
                  /\ Dot(pmImpulses'[1].impulse, forward) > 0
                  /\ UNCHANGED <<pmMeshes, pmBodies, pmJoints, pmPos, pmMass>>]_vars

\* The ball was pushed after a link had been removed.
C8_Witness ==
    /\ pmLoaded
    /\ CutLinks # {}
    /\ Len(pmImpulses) = 1
    /\ pmImpulses[1].body = WreckingBall

\* The joints of J that body x takes part in
JointsAt(x, J) == {j \in J : j[1] = x \/ j[2] = x}

\* The joints of a chain from a over the sequence mid to b
ChainJoints(a, mid, b) ==
    IF Len(mid) = 0 THEN {<<a, b>>}
    ELSE {<<a, mid[1]>>, <<mid[Len(mid)], b>>}
             \cup {<<mid[i], mid[i + 1]>> : i \in 1..(Len(mid) - 1)}

\* Nothing of the level has been disposed
LevelIntact == gameLoaded /\ CutSegments = {} /\ Candy \in physBodies

\* The longest rope createRope is tried on by itself
MaxSegmentCount == 5

\* createRope(_, candy, n) on a level that holds the candy alone gives a static
\* anchor, n segments and the n + 1 joints of the chain from the anchor to the candy.
OneRopeIsChain(n) ==
    LET g == createRope(createCandy(EmptyLevel, Vec(0, 80, 0)), Candy, n)
        rope == g.ropes[1]
    IN  /\ Len(g.ropes) = 1
        /\ Len(rope.segments) = n
        /\ g.bodies = {Candy, rope.anchorMesh} \cup {Segment(0, i) : i \in 0..(n - 1)}
        /\ Cardinality(g.bodies) = n + 2
        /\ g.mass[rope.anchorMesh] = 0
        /\ g.joints = ChainJoints(rope.anchorMesh, rope.segments, Candy)
        /\ Cardinality(g.joints) = n + 1

\* C9: createRope builds a static anchor, n segments and the n + 1 joints of
\* one chain to the candy; load() leaves 3 ropes of 8, 10 and 12 segments; while
\* nothing of the ropes is disposed each rope is a static anchor body, its n
\* segment bodies and exactly the n + 1 joints anchor -> segment 0 -> ... ->
\* segment n-1 -> candy, so that the anchor is in one joint and each segment in
\* two; there are 30 segment bodies and 33 joints in all, and every rope ends
\* at the one candy.
C9_RopesAreChains ==
    gameLoaded =>
        /\ \A n \in 0..MaxSegmentCount : OneRopeIsChain(n)
        /\ Len(ropes) = 3
        /\ <<Len(ropes[1].segments), Len(ropes[2].segments), Len(ropes[3].segments)>>
               = <<8, 10, 12>>
        /\ \A r \in 1..3 : \A i, k \in 1..Len(ropes[r].segments) :
               i # k => ropes[r].segments[i] # ropes[r].segments[k]
        /\ LevelIntact =>
               /\ \A r \in 1..3 :
                      LET rope == ropes[r]
                          n == Len(rope.segments)
                      IN  /\ RopeBodies(r) \subseteq physBodies
                          /\ bodyMass[rope.anchorMesh] = 0
                          /\ RopeJoints(r, constraints)
                                 = ChainJoints(rope.anchorMesh, rope.segments, Candy)
                          /\ Cardinality(RopeJoints(r, constraints)) = n + 1
                          /\ Cardinality(JointsAt(rope.anchorMesh, constraints)) = 1
                          /\ \A i \in 1..n :
                                 Cardinality(JointsAt(rope.segments[i], constraints)) = 2
               /\ Cardinality(SegmentsOf(ropes)) = 30
               /\ Cardinality(constraints) = 33
               /\ Cardinality(JointsAt(Candy, constraints)) = 3

\* The level is loaded and whole, and the candy hangs from all three anchors.
C9_Witness ==
    /\ LevelIntact
    /\ \A r \in 1..Len(ropes) :
           Connected(ropes[r].anchorMesh, Candy, RopeJoints(r, constraints))
    /\ Cardinality(constraints) = 33

\* C10: createPendulum builds a static anchor, the 10 links link_0 .. link_9 and
\* the ball; link i is placed 0.8 * (i + 1) below the anchor and the ball 2
\* below link_9; and while no link is removed the joints are exactly the 11 of
\* the chain anchor -> link_0 -> ... -> link_9 -> ball.
C10_PendulumIsChain ==
    pmLoaded =>
        /\ {m \in DOMAIN pmMass : StartsWith(MeshName(m), "link_")} = Links
        /\ \A i \in 0..9 : MeshName(Link(i)) = <<"link_", i>>
        /\ pmMass[PmAnchor] = 0
        /\ \A i \in 0..9 :
               /\ pmPos[Link(i)][1] = pmPos[PmAnchor][1]
               /\ pmPos[Link(i)][3] = pmPos[PmAnchor][3]
               /\ pmPos[PmAnchor][2] - pmPos[Link(i)][2] = 8 * (i + 1)
        /\ pmPos[WreckingBall] = VecAdd(pmPos[Link(9)], Vec(0, -20, 0))
        /\ CutLinks = {} =>
               /\ pmJoints = ChainJoints(PmAnchor, [i \in 1..10 |-> Link(i - 1)],
                                         WreckingBall)
               /\ Cardinality(pmJoints) = 11

\* The playground is loaded and whole: the ball hangs from the anchor.
C10_Witness ==
    /\ pmLoaded
    /\ CutLinks = {}
    /\ Connected(PmAnchor, WreckingBall, pmJoints)
    /\ Cardinality(pmBodies) = 31

\* C15: while the candy exists, every rope with no segment cut joins its anchor
\* to the candy through its own joints, whatever was cut on the other ropes,
\* popped, collected or rendered before; and a click on a segment of one rope
\* leaves every other rope that joined its anchor to the candy joining them.
C15_OtherRopesHold ==
    /\ [](gameLoaded /\ Candy \in physBodies
              => \A r \in (1..Len(ropes)) \ CutRopes :
                     Connected(ropes[r].anchorMesh, Candy, RopeJoints(r, constraints)))
    /\ [][\A m \in SegmentsOf(ropes) \cap sceneMeshes :
              onPointer("POINTERDOWN", TRUE, m)
                  => \A r \in 1..Len(ropes) :
                         (/\ m \notin RopeBodies(r)
                          /\ Connected(ropes[r].anchorMesh, Candy,
                                       RopeJoints(r, constraints)))
                             => Connected(ropes[r].anchorMesh, Candy,
                                          RopeJoints(r, constraints'))]_vars

\* The first two ropes are cut at both ends, a bubble is popped and a star is
\* collected, and the candy still exists and hangs on the third rope.
C15_Witness ==
    /\ gameLoaded
    /\ CutSegments = {Segment(0, 0), Segment(0, 7), Segment(1, 0), Segment(1, 9)}
    /\ isPopped[1]
    /\ starsCollected >= 1
    /\ Candy \in physBodies
    /\ Connected(ropes[3].anchorMesh, Candy, RopeJoints(3, constraints))

\* The segments of rope r before (towards the anchor) and after (towards the
\* candy) its i-th segment
SegmentsBefore(r, i) == {ropes[r].segments[k] : k \in 1..(i - 1)}
SegmentsAfter(r, i) == {ropes[r].segments[k] : k \in (i + 1)..Len(ropes[r].segments)}

\* C16: a POINTERDOWN that picks the i-th segment of a rope removes that mesh,
\* that body and the joints at it, and nothing else: every other mesh and body
\* (segments, anchors, candy) remains; each segment before the cut that was
\* joined to the anchor still is, and each segment after it that was joined to
\* the candy still is (all of them, when the rope was whole); ropes, which still
\* lists the segment, the stars, starsCollected and gameWon are unchanged.
C16_CutRemovesOnlySegment ==
    [][\A r \in 1..Len(ropes) : \A i \in 1..Len(ropes[r].segments) :
          LET m == ropes[r].segments[i]
              J == RopeJoints(r, constraints)
              K == RopeJoints(r, constraints')
          IN  (m \in sceneMeshes /\ onPointer("POINTERDOWN", TRUE, m))
                  => /\ sceneMeshes' = sceneMeshes \ {m}
                     /\ physBodies' = physBodies \ {m}
                     /\ constraints' = {j \in constraints : j[1] # m /\ j[2] # m}
                     /\ SegmentsBefore(r, i) \cap Reach({ropes[r].anchorMesh}, J)
                            \subseteq Reach({ropes[r].anchorMesh}, K)
                     /\ SegmentsAfter(r, i) \cap Reach({Candy}, J)
                            \subseteq Reach({Candy}, K)
                     /\ (r \notin CutRopes /\ Candy \in physBodies)
                            => /\ SegmentsBefore(r, i)
                                      \subseteq Reach({ropes[r].anchorMesh}, K)
                               /\ SegmentsAfter(r, i) \subseteq Reach({Candy}, K)
                     /\ ropes' = ropes
                     /\ m \in SegmentsOf(ropes')
                     /\ UNCHANGED <<stars, starsCollected, gameWon, airBlowers, bubbles>>]_vars

\* The fifth segment of the second rope is cut after the last segment of the
\* first rope, the ropes still list it, the four segments before it hang from
\* the anchor and the five after it from the candy, and the two halves are apart.
C16_Witness ==
    /\ gameLoaded
    /\ CutSegments = {Segment(0, 7), Segment(1, 4)}
    /\ ropes[2].segments[5] = Segment(1, 4)
    /\ \A b \in SegmentsBefore(2, 5) :
           /\ b \in physBodies
           /\ Connected(ropes[2].anchorMesh, b, RopeJoints(2, constraints))
           /\ ~Connected(b, Candy, constraints)
    /\ \A b \in SegmentsAfter(2, 5) :
           /\ b \in physBodies
           /\ Connected(b, Candy, RopeJoints(2, constraints))

\* A key is held when the latest keyboard event the vehicle got for it, in
\* either case, is a key-down
Held(key) == key \in DOMAIN lastKeyEvent /\ lastKeyEvent[key] = KEYDOWN

\* The sum of a sequence of vectors
RECURSIVE VecSum(_)
VecSum(vs) == IF vs = <<>> THEN Vec(0, 0, 0) ELSE VecAdd(Head(vs), VecSum(Tail(vs)))

\* How many entries of the sequence vs are v
Count(vs, v) == Cardinality({i \in 1..Len(vs) : vs[i] = v})

\* C11: in every frame after build(), the chassis gets the impulse 5 * forward
\* once iff "w" is held and -5 * forward once iff "s" is held, and no other
\* impulse; its angular velocity is changed by (0, -0.05, 0) iff "a" is held and
\* by (0, +0.05, 0) iff "d" is held; with none of the four held nothing is
\* applied or set; with "w" and "s" held the impulses sum to zero, and with "a"
\* and "d" held the angular velocity ends as it was read.
C11_VehicleInputs ==
    [][\A forward \in ChassisForwards : \A angVel \in AngVels :
          vehBeforeRender(forward, angVel)
              => LET f == vehFrame'
                     w == IF Held("w") THEN 1 ELSE 0
                     s == IF Held("s") THEN 1 ELSE 0
                     a == IF Held("a") THEN 1 ELSE 0
                     d == IF Held("d") THEN 1 ELSE 0
                 IN  /\ Count(f.impulses, Scale(forward, 5)) = w
                     /\ Count(f.impulses, Scale(forward, -5)) = s
                     /\ Len(f.impulses) = w + s
                     /\ f.angVel = VecAdd(angVel, Vec(0, 5 * d - 5 * a, 0))
                     /\ f.sets = a + d
                     /\ (w + s + a + d = 0)
                            => f.impulses = <<>> /\ f.sets = 0 /\ f.angVel = angVel
                     /\ (w + s = 2) => VecSum(f.impulses) = Vec(0, 0, 0)
                     /\ (a + d = 2) => f.angVel = angVel]_vars

\* A frame with all four keys held: both impulses applied, the angular velocity
\* set twice and back at the (0, 0.2, 0) it was read as.
C11_Witness ==
    /\ vehState = "built"
    /\ Held("w") /\ Held("s") /\ Held("a") /\ Held("d")
    /\ vehFrame.impulses = <<Vec(0, 0, 5), Vec(0, 0, -5)>>
    /\ vehFrame.sets = 2
    /\ vehFrame.angVelRead = Vec(0, 20, 0)
    /\ vehFrame.angVel = Vec(0, 20, 0)

\* C12: init() never rejects, whether WebGPU is unsupported or its
\* initialisation fails, and when it has completed this.engine is one engine,
\* WebGPU or WebGL, and the scene is bound to it.
C12_InitAlwaysCompletes ==
    /\ engPc # "rejected"
    /\ engPc = "done"
           => /\ engine \in {"WebGPU", "WebGL"}
              /\ scene.engine = engine

\* C13: matrix mode is disabled until the first toggle; a key-down of "m" flips
\* it and leaves renderOutline of every mesh then in the scene equal to the new
\* mode; every other keyboard event leaves the mode and every renderOutline as
\* they are; after two toggles the mode is what it was before the first of them.
C13_MatrixToggle ==
    /\ [](matrixTrail = <<>> => ~matrixMode)
    /\ [][\A type \in {KEYDOWN, KEYUP} : \A key \in Keys :
              matrixOnKeyboard(type, key)
                  => IF type = 1 /\ key = "m"
                     THEN /\ matrixMode' = ~matrixMode
                          /\ engMeshes' = engMeshes
                          /\ \A m \in engMeshes : (m \in renderOutline') = matrixMode'
                     ELSE UNCHANGED <<matrixMode, renderOutline, engMeshes>>]_vars
    /\ [](Len(matrixTrail) = 2 => matrixMode = matrixTrail[1])

\* Matrix mode is on after an even number of toggles and another one, one mesh
\* of the scene is outlined and one, created since, is not.
C13_Witness ==
    /\ engPc = "done"
    /\ matrixMode
    /\ matrixTrail = <<TRUE, FALSE>>
    /\ 1 \in engMeshes /\ 1 \in renderOutline
    /\ 2 \in engMeshes /\ 2 \notin renderOutline

\* C14: when HavokPhysics() or the HavokPlugin constructor throws, init() logs
\* the error and completes: light, camera, matrix-view handler, render loop and
\* resize handler are set up, the scene is bound to the engine and has no
\* physics; init() never rejects once it has come to the physics.
C14_HavokFailureCaught ==
    /\ [][\A outcome \in HavokOutcomes \ {"ok"} :
              havokSettled(outcome)
                  => /\ engPc' = "done"
                     /\ <<"error", "Failed to initialize Havok Physics">> \in engLog'
                     /\ engSetup' = <<"light", "camera", "matrixView", "renderLoop",
                                      "resize">>
                     /\ ~scene'.physics
                     /\ scene'.engine = engine' /\ engine' # NoEngine]_vars
    /\ [][engPc = "HavokPhysics" => engPc' = "done"]_vars
    /\ [](engPc = "done" =>
              (scene.physics <=> <<"log", "Havok Physics Initialized">> \in engLog))

\* init() has completed on a WebGPU engine with the physics failure logged, no
\* physics on the scene, and the matrix view toggled on since.
C14_Witness ==
    /\ engPc = "done"
    /\ engine = "WebGPU"
    /\ ~scene.physics
    /\ <<"error", "Failed to initialize Havok Physics">> \in engLog
    /\ Len(engSetup) = 5
    /\ matrixMode

====
